---- MODULE Spec2Model ----
(***************************************************************************)
(* Tensorforce core: the Evolutionary optimizer's step as the dataflow     *)
(* graph it builds (operations run in any order its data and control       *)
(* dependencies allow), the SubsamplingStep update modifier, the           *)
(* OrnsteinUhlenbeck parameter, the construction of an AutoNetwork and     *)
(* the ParametrizedDistributions policy.                                   *)
(***************************************************************************)
EXTENDS Integers, Sequences, FiniteSets, TLC

\* ------------------------------------------------------------------ bounds

\* Largest value the num_samples parameter resolves to.
MaxSamples == 2

\* ------------------------------------------------------------ float values
\* A float tensor element is a fixed-point numeral: <<x>> stands for the real
\* x / Scale, and << >> stands for NaN.  Scale is divisible by every sample
\* count, so that the division of line 138 is exact on the modelled values.

RECURSIVE GCD(_, _)
GCD(a, b) == IF b = 0 THEN a ELSE GCD(b, a % b)

RECURSIVE LCMUpTo(_)
LCMUpTo(n) == IF n <= 1 THEN 1 ELSE (LCMUpTo(n - 1) * n) \div GCD(LCMUpTo(n - 1), n)

Scale == LCMUpTo(MaxSamples)

NaN == << >>
F(x) == <<x>>
IsNaN(a) == a = NaN
Val(a) == a[1]

FAdd(a, b) == IF IsNaN(a) \/ IsNaN(b) THEN NaN ELSE F(Val(a) + Val(b))
FSub(a, b) == IF IsNaN(a) \/ IsNaN(b) THEN NaN ELSE F(Val(a) - Val(b))

\* tf.math.sign: -1.0, 0.0 or 1.0 (as a plain integer), NaN for NaN.
Sign(a) == IF IsNaN(a) THEN NaN ELSE IF Val(a) > 0 THEN F(1) ELSE IF Val(a) < 0 THEN F(0 - 1) ELSE F(0)

\* direction * perturbation: direction is Sign's result.
Times(d, a) == IF IsNaN(d) \/ IsNaN(a) THEN NaN ELSE F(Val(d) * Val(a))

\* delta / num_samples with num_samples cast to float: 0.0 / 0.0 is NaN.  (A
\* nonzero delta over zero samples cannot occur: with no iteration the deltas
\* are the zeros of line 74.)
Divide(a, n) == IF IsNaN(a) \/ n = 0 THEN NaN ELSE F(Val(a) \div n)

\* ------------------------------------------------------------ the variables

\* Two callers of step on the same variable set.
Calls == {1, 2}

VARIABLES
    variables,               \* the optimized variables: VarIdx -> float
    self,                    \* per call: unroll_loop, num_samples, learning_rate, fn (the loss)
    status,                  \* per call: "off", "idle", "running", "done", "failed"
    pc,                      \* per call: position in the loop: "draw", "assign", "direction", "final"
    evaluated,               \* per call: which of reference, unperturbed_loss have run
    reference,               \* per call: result of fn_reference
    unperturbed_loss,        \* per call
    sample,                  \* per call: completed loop iterations
    perturbations,           \* per call: this iteration's perturbations
    previous_perturbations,  \* per call: loop variable
    perturbation_deltas,     \* per call: what the pending assignments add
    assignments,             \* per call: assign_add operations not yet run
    perturbed_loss,          \* per call
    deltas,                  \* per call: loop variable, then the averaged deltas
    returned,                \* per call: the list step returned
    start_values,            \* history: variables when the call began
    written,                 \* history: per call and variable, assign_add operations run
    drawn,                   \* history: per call, the perturbations of each iteration
    losses,                  \* history: per call, the perturbed loss of each iteration
    seen                     \* history: per call, `written` as observed by each read

evoVars == <<variables, self, status, pc, evaluated, reference, unperturbed_loss, sample,
             perturbations, previous_perturbations, perturbation_deltas, assignments,
             perturbed_loss, deltas, returned, start_values, written, drawn, losses, seen>>

\* SubsamplingStep.step
VARIABLES
    arguments,               \* the batch given to step: name -> tensor (a sequence of rows)
    fraction,                \* value of the fraction parameter, in units of 1 / FracDen
    indices,                 \* the sampled batch indices (0-based)
    subsampled_arguments,    \* what step hands to the wrapped optimizer
    sub_status               \* "off", "idle", "done"

subVars == <<arguments, fraction, indices, subsampled_arguments, sub_status>>

\* OrnsteinUhlenbeck
VARIABLES
    ou_self,                 \* theta, sigma, mu, absolute, the declared type, the base's lower bound
    process,                 \* the process variable: << >> until it is added, then <<value>>
    parameter,               \* what the latest value request returned
    requests,                \* history: per request, the process before it and the noise drawn
    min_values,              \* history: what each call of min_value returned
    ou_status                \* "off", "on"

ouVars == <<ou_self, process, parameter, requests, min_values, ou_status>>

\* AutoNetwork.__init__
VARIABLES
    inputs_spec,             \* the inputs in order: name, type, rank
    net_args,                \* size, depth, final_size, final_depth, rnn
    layers,                  \* the pipelines handed to LayeredNetwork
    net_error,               \* the value the raised error names: << >> or <<rank>>
    net_status               \* "off", "idle", "built", "error"

netVars == <<inputs_spec, net_args, layers, net_error, net_status>>

\* ParametrizedDistributions
VARIABLES
    actions_spec,            \* the actions in order: name, type, num_values, min_value
    pd_args,                 \* distributions, infer_state_value, the network's output type
    pd_self,                 \* the constructed policy: distributions, infer_state_value, value
    pd_error,                \* the exception a constructor or a call raised ("" for none)
    auxiliaries,             \* the auxiliaries given to the call: action name -> conditions
    network_applied,         \* how often network.apply has run
    pd_result,               \* what the call returned
    pd_status                \* "off", "idle", "constructed", "error", "returned", "raised"

pdVars == <<actions_spec, pd_args, pd_self, pd_error, auxiliaries, network_applied,
            pd_result, pd_status>>

vars == <<evoVars, subVars, ouVars, netVars, pdVars>>

\* Indices of the optimized variables (each a scalar), in the order step is given them.
VarIdx == DOMAIN variables

\* tf.zeros_like(input=variable) for variable in variables.
Zeros == [i \in VarIdx |-> F(0)]

\* --------------------------------------------------------------- the inputs

\* Values tf.random.normal draws (in units of the standard deviation).
Noise == {0 - 1, 0, 1}

\* Values of the learning_rate parameter (float >= 0.0).
LearningRates == {0, 1}

\* The caller's fn_comparative_loss: a loss of the variables alone, a loss that
\* ignores them, a loss relative to the reference.
LossFns == {"quadratic", "constant", "drift"}

\* Values of the variables when step is called (in units of 1).
VarInits == {<<1, 0 - 1>>, <<0, 2>>}

RECURSIVE SumOver(_, _)
SumOver(S, f) == IF S = {} THEN 0 ELSE LET i == CHOOSE x \in S : TRUE IN f[i] + SumOver(S \ {i}, f)

AnyNaN(v) == \E i \in VarIdx : IsNaN(v[i])

\* fn_reference(**arguments): the caller's reference, computed from the current
\* variables (a snapshot of them).
Reference(vs) == vs

\* fn_comparative_loss(**arguments, reference=reference) under the current
\* variables.  Only the sign of a difference of two losses is used, so the loss is
\* kept in its own unit.
ComparativeLoss(fn, vs, ref) ==
    IF fn = "constant" THEN F(0)
    ELSE IF AnyNaN(vs) \/ AnyNaN(ref) THEN NaN
    ELSE IF fn = "quadratic" THEN F(SumOver(VarIdx, [i \in VarIdx |-> Val(vs[i]) * Val(vs[i])]))
    ELSE F(SumOver(VarIdx, [i \in VarIdx |-> (Val(vs[i]) - Val(ref[i])) * (Val(vs[i]) - Val(ref[i]))]))

\* Mutant: the noise is not scaled by the learning rate.
PerturbationUnscaled(lr, noise) == [i \in VarIdx |-> F(noise[i] * Scale)]

\* learning_rate * tf.random.normal(shape): one perturbation per variable.
Perturbation(lr, noise) == [i \in VarIdx |-> F(lr * noise[i] * Scale)]

NoWrites == [i \in VarIdx |-> 0]

NotSeen == [reference |-> NoWrites, unperturbed_loss |-> NoWrites, perturbed_loss |-> << >>,
            returned |-> NoWrites, foreign |-> FALSE, alone |-> TRUE]

\* Variable i carries an uncorrected perturbation of call c: c has written it and
\* has not yet written its final correction (write number num_samples + 1).
Carries(c, i) == written[c][i] > 0 /\ written[c][i] <= self[c].num_samples

\* A read of the variables by call c sees a perturbation of another call.
Foreign(c) == \E d \in Calls \ {c} : \E i \in VarIdx : Carries(d, i)

\* Call c begins while no other call is under way: each other call has returned
\* or has not begun.
Alone(c) == \A d \in Calls \ {c} : status[d] \in {"off", "idle", "done"}

Configs == [unroll_loop : BOOLEAN, num_samples : 0 .. MaxSamples,
            learning_rate : LearningRates, fn : LossFns]

NoConfig == [unroll_loop |-> FALSE, num_samples |-> 0, learning_rate |-> 0, fn |-> "constant"]

\* ------------------------------------------------------------------- Init

\* The state shared by every specification before any call of step.
InitCalls(vs, cfg, st) ==
    /\ variables = [i \in DOMAIN vs |-> F(vs[i] * Scale)]
    /\ self = cfg
    /\ status = st
    /\ pc = [c \in Calls |-> "draw"]
    /\ evaluated = [c \in Calls |-> {}]
    /\ reference = [c \in Calls |-> Zeros]
    /\ unperturbed_loss = [c \in Calls |-> F(0)]
    /\ sample = [c \in Calls |-> 0]
    /\ perturbations = [c \in Calls |-> Zeros]
    /\ previous_perturbations = [c \in Calls |-> Zeros]
    /\ perturbation_deltas = [c \in Calls |-> Zeros]
    /\ assignments = [c \in Calls |-> {}]
    /\ perturbed_loss = [c \in Calls |-> F(0)]
    /\ deltas = [c \in Calls |-> Zeros]
    /\ returned = [c \in Calls |-> Zeros]
    /\ start_values = [c \in Calls |-> Zeros]
    /\ written = [c \in Calls |-> NoWrites]
    /\ drawn = [c \in Calls |-> << >>]
    /\ losses = [c \in Calls |-> << >>]
    /\ seen = [c \in Calls |-> NotSeen]

\* No SubsamplingStep in use.
InitNoSub ==
    /\ arguments = << >>
    /\ fraction = 0
    /\ indices = << >>
    /\ subsampled_arguments = << >>
    /\ sub_status = "off"

\* No OrnsteinUhlenbeck parameter in use.
InitNoOU ==
    /\ ou_self = << >>
    /\ process = << >>
    /\ parameter = << >>
    /\ requests = << >>
    /\ min_values = << >>
    /\ ou_status = "off"

\* No AutoNetwork constructed.
InitNoNet ==
    /\ inputs_spec = << >>
    /\ net_args = << >>
    /\ layers = << >>
    /\ net_error = << >>
    /\ net_status = "off"

\* No ParametrizedDistributions policy in use.
InitNoPD ==
    /\ actions_spec = << >>
    /\ pd_args = << >>
    /\ pd_self = << >>
    /\ pd_error = ""
    /\ auxiliaries = << >>
    /\ network_applied = 0
    /\ pd_result = << >>
    /\ pd_status = "off"

\* One caller; the second never calls.
Init ==
    /\ \E vs \in VarInits, cfg \in Configs :
        InitCalls(vs, [c \in Calls |-> IF c = 1 THEN cfg ELSE NoConfig],
                  [c \in Calls |-> IF c = 1 THEN "idle" ELSE "off"])
    /\ InitNoSub
    /\ InitNoOU
    /\ InitNoNet
    /\ InitNoPD

\* One caller, every sample count, loop form and loss, one start of the variables.
InitOne ==
    /\ \E cfg \in {k \in Configs : k.learning_rate = 1} :
        InitCalls(<<1, 0 - 1>>, [c \in Calls |-> IF c = 1 THEN cfg ELSE NoConfig],
                  [c \in Calls |-> IF c = 1 THEN "idle" ELSE "off"])
    /\ InitNoSub
    /\ InitNoOU
    /\ InitNoNet
    /\ InitNoPD

\* Two callers of step on the same variables, each free to call at any time.
ConcConfig == [unroll_loop |-> FALSE, num_samples |-> 1, learning_rate |-> 1, fn |-> "quadratic"]

InitConc ==
    /\ InitCalls(<<1>>, [c \in Calls |-> ConcConfig], [c \in Calls |-> "idle"])
    /\ InitNoSub
    /\ InitNoOU
    /\ InitNoNet
    /\ InitNoPD

\* ------------------------------------------------- Evolutionary.step: helpers

VAdd(u, v) == [i \in VarIdx |-> FAdd(u[i], v[i])]
VSub(u, v) == [i \in VarIdx |-> FSub(u[i], v[i])]

\* Line 137 reads the local num_samples, which only the while-loop branch binds
\* (line 130): with unroll_loop the function raises UnboundLocalError while its
\* graph is being built, after the unrolled loop was traced and before any
\* operation of it runs.
TraceFails(c) == self[c].unroll_loop

\* Mutant: the loop runs one iteration too many.
LoopCondOffByOne(c) == sample[c] <= self[c].num_samples

\* tf.while_loop(cond=always_true, ..., maximum_iterations=num_samples).
LoopCond(c) == sample[c] < self[c].num_samples

\* Mutant: the previous perturbation is not taken back.
PerturbationDeltasNotTelescoped(perts, prevs) == perts

\* pert - prev_pert: what an iteration adds to a variable.
PerturbationDeltas(perts, prevs) == VSub(perts, prevs)

\* Mutant: the comparison is the wrong way round.
DirectionReversed(unperturbed, perturbed) == Sign(FSub(perturbed, unperturbed))

\* direction = sign(unperturbed_loss - perturbed_loss).
Direction(unperturbed, perturbed) == Sign(FSub(unperturbed, perturbed))

\* delta + direction * perturbation.
Accumulated(ds, direction, perts) == [i \in VarIdx |-> FAdd(ds[i], Times(direction, perts[i]))]

\* delta / num_samples.
Averaged(ds, n) == [i \in VarIdx |-> Divide(ds[i], n)]

\* Mutant: the last perturbation stays applied.
CorrectionKeepsPerturbation(ds, perts) == ds

\* delta - pert: the final correction.
Correction(ds, perts) == VSub(ds, perts)

\* Mutant: the perturbed loss does not wait for the assignments.
LossDepsDropped(c) == TRUE

\* tf.control_dependencies(assignments) around the perturbed loss.
LossDeps(c) == assignments[c] = {}

\* The unperturbed loss takes the reference as data and has no control input.
UnperturbedDeps(c) == "reference" \in evaluated[c]

\* Mutant: step returns without waiting for the final assignments.
ReturnDepsDropped(c) == TRUE

\* tf.control_dependencies(assignments) around the returned identities.
ReturnDeps(c) == assignments[c] = {}

\* What step returns: the averaged deltas.
Returned(c) == deltas[c]

\* ------------------------------------------------- Evolutionary.step: actions

\* The call begins: its graph is built (or fails to), deltas and
\* previous_perturbations are zeros.
Start(c) ==
    /\ status[c] = "idle"
    /\ status' = [status EXCEPT ![c] = IF TraceFails(c) THEN "failed" ELSE "running"]
    /\ start_values' = [start_values EXCEPT ![c] = variables]
    /\ deltas' = [deltas EXCEPT ![c] = Zeros]
    /\ previous_perturbations' = [previous_perturbations EXCEPT ![c] = Zeros]
    /\ seen' = [seen EXCEPT ![c].alone = Alone(c)]
    /\ UNCHANGED <<subVars, ouVars, netVars, pdVars, variables, self, pc, evaluated, reference, unperturbed_loss, sample,
                   perturbations, perturbation_deltas, assignments, perturbed_loss,
                   returned, written, drawn, losses>>

\* reference = fn_reference(**arguments); the caller's function may raise.
EvalReference(c) ==
    /\ status[c] = "running"
    /\ "reference" \notin evaluated[c]
    /\ \E raises \in BOOLEAN :
        IF raises
        THEN /\ status' = [status EXCEPT ![c] = "failed"]
             /\ UNCHANGED <<evaluated, reference, seen>>
        ELSE /\ reference' = [reference EXCEPT ![c] = Reference(variables)]
             /\ evaluated' = [evaluated EXCEPT ![c] = @ \cup {"reference"}]
             /\ seen' = [seen EXCEPT ![c].reference = written[c]]
             /\ UNCHANGED status
    /\ UNCHANGED <<subVars, ouVars, netVars, pdVars, variables, self, pc, unperturbed_loss, sample, perturbations,
                   previous_perturbations, perturbation_deltas, assignments,
                   perturbed_loss, deltas, returned, start_values, written, drawn, losses>>

\* unperturbed_loss = fn_comparative_loss(**arguments, reference=reference).
EvalUnperturbed(c) ==
    /\ status[c] = "running"
    /\ "unperturbed_loss" \notin evaluated[c]
    /\ UnperturbedDeps(c)
    /\ \E raises \in BOOLEAN :
        IF raises
        THEN /\ status' = [status EXCEPT ![c] = "failed"]
             /\ UNCHANGED <<evaluated, unperturbed_loss, seen>>
        ELSE /\ unperturbed_loss' = [unperturbed_loss EXCEPT
                    ![c] = ComparativeLoss(self[c].fn, variables, reference[c])]
             /\ evaluated' = [evaluated EXCEPT ![c] = @ \cup {"unperturbed_loss"}]
             /\ seen' = [seen EXCEPT ![c].unperturbed_loss = written[c],
                                     ![c].foreign = @ \/ Foreign(c)]
             /\ UNCHANGED status
    /\ UNCHANGED <<subVars, ouVars, netVars, pdVars, variables, self, pc, reference, sample, perturbations,
                   previous_perturbations, perturbation_deltas, assignments,
                   perturbed_loss, deltas, returned, start_values, written, drawn, losses>>

\* body, first block: draw the perturbations, create the assign_add operations.
Draw(c) ==
    /\ status[c] = "running"
    /\ pc[c] = "draw"
    /\ LoopCond(c)
    /\ \E noise \in [VarIdx -> Noise] :
        LET perts == Perturbation(self[c].learning_rate, noise) IN
        /\ perturbations' = [perturbations EXCEPT ![c] = perts]
        /\ perturbation_deltas' = [perturbation_deltas EXCEPT
                ![c] = PerturbationDeltas(perts, previous_perturbations[c])]
        /\ drawn' = [drawn EXCEPT ![c] = Append(@, perts)]
    /\ assignments' = [assignments EXCEPT ![c] = VarIdx]
    /\ pc' = [pc EXCEPT ![c] = "assign"]
    /\ UNCHANGED <<subVars, ouVars, netVars, pdVars, variables, self, status, evaluated, reference, unperturbed_loss, sample,
                   previous_perturbations, perturbed_loss, deltas, returned, start_values,
                   written, losses, seen>>

\* variable.assign_add(delta=delta, read_value=False), for one variable.
AssignAdd(c, i) ==
    /\ i \in assignments[c]
    /\ variables' = [variables EXCEPT ![i] = FAdd(@, perturbation_deltas[c][i])]
    /\ assignments' = [assignments EXCEPT ![c] = @ \ {i}]
    /\ written' = [written EXCEPT ![c][i] = @ + 1]
    /\ UNCHANGED <<subVars, ouVars, netVars, pdVars, self, status, pc, evaluated, reference, unperturbed_loss, sample,
                   perturbations, previous_perturbations, perturbation_deltas,
                   perturbed_loss, deltas, returned, start_values, drawn, losses, seen>>

\* An assignment of the loop body.
Assign(c, i) ==
    /\ status[c] = "running"
    /\ pc[c] = "assign"
    /\ AssignAdd(c, i)

\* body, second block: the perturbed loss, which the caller's function may fail
\* to compute.
EvalPerturbed(c) ==
    /\ status[c] = "running"
    /\ pc[c] = "assign"
    /\ LossDeps(c)
    /\ "reference" \in evaluated[c]
    /\ \E raises \in BOOLEAN :
        IF raises
        THEN /\ status' = [status EXCEPT ![c] = "failed"]
             /\ UNCHANGED <<pc, perturbed_loss, losses, seen>>
        ELSE LET loss == ComparativeLoss(self[c].fn, variables, reference[c]) IN
             /\ perturbed_loss' = [perturbed_loss EXCEPT ![c] = loss]
             /\ losses' = [losses EXCEPT ![c] = Append(@, loss)]
             /\ seen' = [seen EXCEPT ![c].perturbed_loss = Append(@, written[c]),
                                     ![c].foreign = @ \/ Foreign(c)]
             /\ pc' = [pc EXCEPT ![c] = "direction"]
             /\ UNCHANGED status
    /\ UNCHANGED <<subVars, ouVars, netVars, pdVars, variables, self, evaluated, reference, unperturbed_loss, sample,
                   perturbations, previous_perturbations, perturbation_deltas, assignments,
                   deltas, returned, start_values, written, drawn>>

\* body, end: direction and the new deltas; the loop variables advance.
Accumulate(c) ==
    /\ status[c] = "running"
    /\ pc[c] = "direction"
    /\ "unperturbed_loss" \in evaluated[c]
    /\ deltas' = [deltas EXCEPT ![c] = Accumulated(
            @, Direction(unperturbed_loss[c], perturbed_loss[c]), perturbations[c])]
    /\ previous_perturbations' = [previous_perturbations EXCEPT ![c] = perturbations[c]]
    /\ sample' = [sample EXCEPT ![c] = @ + 1]
    /\ pc' = [pc EXCEPT ![c] = "draw"]
    /\ UNCHANGED <<subVars, ouVars, netVars, pdVars, variables, self, status, evaluated, reference, unperturbed_loss,
                   perturbations, perturbation_deltas, assignments, perturbed_loss,
                   returned, start_values, written, drawn, losses, seen>>

\* After the loop: average, and create the assignments of the final correction.
Correct(c) ==
    /\ status[c] = "running"
    /\ pc[c] = "draw"
    /\ ~LoopCond(c)
    /\ LET averaged == Averaged(deltas[c], self[c].num_samples) IN
        /\ deltas' = [deltas EXCEPT ![c] = averaged]
        /\ perturbation_deltas' = [perturbation_deltas EXCEPT
                ![c] = Correction(averaged, previous_perturbations[c])]
    /\ assignments' = [assignments EXCEPT ![c] = VarIdx]
    /\ pc' = [pc EXCEPT ![c] = "final"]
    /\ UNCHANGED <<subVars, ouVars, netVars, pdVars, variables, self, status, evaluated, reference, unperturbed_loss, sample,
                   perturbations, previous_perturbations, perturbed_loss, returned,
                   start_values, written, drawn, losses, seen>>

\* An assignment of the final correction.
FinalAssign(c, i) ==
    /\ status[c] \in {"running", "done"}
    /\ pc[c] = "final"
    /\ AssignAdd(c, i)

\* return [tf_util.identity(input=delta) for delta in deltas].
Return(c) ==
    /\ status[c] = "running"
    /\ pc[c] = "final"
    /\ ReturnDeps(c)
    /\ returned' = [returned EXCEPT ![c] = Returned(c)]
    /\ status' = [status EXCEPT ![c] = "done"]
    /\ seen' = [seen EXCEPT ![c].returned = written[c]]
    /\ UNCHANGED <<subVars, ouVars, netVars, pdVars, variables, self, pc, evaluated, reference, unperturbed_loss, sample,
                   perturbations, previous_perturbations, perturbation_deltas, assignments,
                   perturbed_loss, deltas, start_values, written, drawn, losses>>

Step(c) ==
    \/ Start(c)
    \/ EvalReference(c)
    \/ EvalUnperturbed(c)
    \/ Draw(c)
    \/ \E i \in VarIdx : Assign(c, i)
    \/ EvalPerturbed(c)
    \/ Accumulate(c)
    \/ Correct(c)
    \/ \E i \in VarIdx : FinalAssign(c, i)
    \/ Return(c)

Next == \E c \in Calls : Step(c)

Spec == Init /\ [][Next]_vars

SpecConc == InitConc /\ [][Next]_vars

\* The executor runs every operation whose inputs are ready.
FairSpec == InitOne /\ [][Next]_vars /\ WF_vars(Next)

\* ------------------------------------------------------- Evolutionary: claims

Ended(c) == status[c] \in {"done", "failed"}

\* The sign of unperturbed_loss - loss as -1, 0, 1, from the recorded losses.
DirectionOf(c, k) ==
    IF Val(unperturbed_loss[c]) > Val(losses[c][k]) THEN 1
    ELSE IF Val(unperturbed_loss[c]) < Val(losses[c][k]) THEN 0 - 1 ELSE 0

RECURSIVE WeightedSum(_, _, _)
WeightedSum(c, i, k) ==
    IF k = 0 THEN 0 ELSE DirectionOf(c, k) * Val(drawn[c][k][i]) + WeightedSum(c, i, k - 1)

\* C1: when step has returned with num_samples >= 1, every variable equals its
\* value at the start of the call plus the averaged delta returned for it.
C1_NetEffectIsAveragedDelta ==
    \A c \in Calls :
        (status[c] = "done" /\ self[c].num_samples >= 1) =>
            \A i \in VarIdx : variables[i] = FAdd(start_values[c][i], returned[c][i])

\* C1 witness: a returned step of two samples whose averaged delta is not zero and
\* differs from the last sampled perturbation.
C1_Witness ==
    \E c \in Calls :
        /\ status[c] = "done"
        /\ self[c].num_samples >= 2
        /\ \E i \in VarIdx :
            /\ returned[c][i] # F(0)
            /\ returned[c][i] # previous_perturbations[c][i]
            /\ variables[i] # FAdd(start_values[c][i], previous_perturbations[c][i])

\* C2: step returns one delta per variable, num_samples times which is the sum
\* over the iterations of direction * perturbation, direction being the sign of
\* unperturbed_loss - perturbed_loss (0 on a tie).
C2_ReturnsAveragedSignedPerturbations ==
    \A c \in Calls :
        (status[c] = "done" /\ self[c].num_samples >= 1) =>
            /\ DOMAIN returned[c] = VarIdx
            /\ Len(drawn[c]) = self[c].num_samples
            /\ Len(losses[c]) = self[c].num_samples
            /\ \A i \in VarIdx :
                /\ ~IsNaN(returned[c][i])
                /\ Val(returned[c][i]) * self[c].num_samples
                       = WeightedSum(c, i, self[c].num_samples)

\* C2 witness: a returned step with a tie in one iteration and a strict
\* comparison in another, whose returned deltas are not the corrections written.
C2_Witness ==
    \E c \in Calls :
        /\ status[c] = "done"
        /\ self[c].num_samples >= 2
        /\ \E k \in 1 .. Len(losses[c]) :
            DirectionOf(c, k) = 0 /\ drawn[c][k] # Zeros
        /\ \E k \in 1 .. Len(losses[c]) : DirectionOf(c, k) # 0
        /\ returned[c] # perturbation_deltas[c]
        /\ returned[c] # Zeros

\* C3 (as claimed): with num_samples = 0 a returned step returned zeros and left
\* the variables at their pre-call values.
C3_ZeroSamplesIsNoOp ==
    \A c \in Calls :
        (status[c] = "done" /\ self[c].num_samples = 0) =>
            returned[c] = Zeros /\ variables = start_values[c]

\* C4 (as claimed): the reference and the unperturbed loss are evaluated before
\* the first perturbation write of the call to any variable.  Stated of the steps
\* with num_samples >= 1, whose first write is that of a perturbation.
C4_UnperturbedLossPrecedesWrites ==
    \A c \in Calls :
        self[c].num_samples >= 1 =>
            /\ "reference" \in evaluated[c] => seen[c].reference = NoWrites
            /\ "unperturbed_loss" \in evaluated[c] => seen[c].unperturbed_loss = NoWrites

\* C5: the perturbed loss of iteration k is evaluated when every variable has
\* been written exactly k times by the call (after the writes of iteration k,
\* before those of iteration k + 1 and of the final correction), and step returns
\* when every variable has had its final write, the one numbered num_samples + 1.
C5_WritesOrderedAroundLosses ==
    \A c \in Calls :
        /\ \A k \in 1 .. Len(seen[c].perturbed_loss) :
            seen[c].perturbed_loss[k] = [i \in VarIdx |-> k]
        /\ status[c] = "done" =>
            seen[c].returned = [i \in VarIdx |-> self[c].num_samples + 1]

\* C5 witness: a returned step of at least two iterations.
C5_Witness ==
    \E c \in Calls :
        /\ status[c] = "done"
        /\ Len(seen[c].perturbed_loss) >= 2
        /\ perturbation_deltas[c] # Zeros

C7_LoopRunsNumSamplesTimes ==
    /\ [](\A c \in Calls :
            /\ sample[c] <= self[c].num_samples
            /\ Len(drawn[c]) <= self[c].num_samples
            /\ pc[c] = "final" =>
                /\ sample[c] = self[c].num_samples
                /\ Len(drawn[c]) = self[c].num_samples
                /\ Len(losses[c]) = self[c].num_samples
            /\ \A i \in VarIdx : written[c][i] <= self[c].num_samples + 1
            /\ status[c] = "done" =>
                \A i \in VarIdx : written[c][i] = self[c].num_samples + 1)
    /\ \A c \in Calls : status[c] = "idle" ~> Ended(c)

\* C7 witness: a returned step whose loop ran MaxSamples times.
C7_Witness ==
    \E c \in Calls :
        /\ status[c] = "done"
        /\ ~self[c].unroll_loop
        /\ self[c].num_samples = MaxSamples
        /\ sample[c] = MaxSamples

\* C8 (as claimed): a step with unroll_loop and num_samples >= 1 that has ended
\* has returned, with the results of the while-loop step: the deltas averaged
\* over num_samples perturbations, applied to the variables.
C8_UnrolledStepCompletesLikeLoop ==
    \A c \in Calls :
        (self[c].unroll_loop /\ self[c].num_samples >= 1 /\ Ended(c)) =>
            /\ status[c] = "done"
            /\ Len(drawn[c]) = self[c].num_samples
            /\ \A i \in VarIdx : variables[i] = FAdd(start_values[c][i], returned[c][i])

\* C9 (as claimed): a failed step left every variable at its pre-call value.
\* Stated of the steps with num_samples >= 1 whose reference and unperturbed
\* loss were evaluated before the first write (the failure is then that of a
\* perturbed loss), so that its violation rests neither on C3 nor on C4.
C9_FailedStepMutatesNothing ==
    \A c \in Calls :
        /\ status[c] = "failed"
        /\ self[c].num_samples >= 1
        /\ evaluated[c] = {"reference", "unperturbed_loss"}
        /\ seen[c].reference = NoWrites
        /\ seen[c].unperturbed_loss = NoWrites
        => variables = start_values[c]

\* What the last write of call c to variable i left applied.
LastWritten(c, i) ==
    IF written[c][i] = 0 THEN F(0)
    ELSE IF written[c][i] <= Len(drawn[c]) THEN drawn[c][written[c][i]][i]
    ELSE deltas[c][i]

\* C9 (amended): a failed step is not rolled back: every variable holds its
\* pre-call value plus what the step's last write to it left applied, the
\* perturbation of the latest iteration that wrote it.
C9_FailedStepKeepsLastWrites ==
    \A c \in Calls :
        status[c] = "failed" =>
            \A i \in VarIdx : variables[i] = FAdd(start_values[c][i], LastWritten(c, i))

\* C9 witness: a step that failed in its second iteration, the variables moved.
C9_Witness ==
    \E c \in Calls :
        /\ status[c] = "failed"
        /\ \E i \in VarIdx : written[c][i] >= 2
        /\ variables # start_values[c]

\* The perturbed loss of the current iteration of call c is ready to be
\* evaluated, or has just been: the assignments of the iteration are done.
AtPerturbedLoss(c) ==
    /\ status[c] = "running"
    /\ \/ pc[c] = "assign" /\ assignments[c] = {}
       \/ pc[c] = "direction"

\* The loop of call c is over and no final correction has been written.
AfterLoop(c) ==
    /\ status[c] = "running"
    /\ sample[c] = self[c].num_samples
    /\ \/ pc[c] = "draw"
       \/ pc[c] = "final" /\ assignments[c] = VarIdx

\* C25: at the perturbed-loss evaluation of iteration k each variable equals its
\* pre-call value plus the k-th perturbation alone, and after the loop, before
\* the final correction, its pre-call value plus the last perturbation.
C25_VariablesCarryOnePerturbation ==
    \A c \in Calls :
        /\ AtPerturbedLoss(c) =>
            /\ Len(drawn[c]) = sample[c] + 1
            /\ \A i \in VarIdx :
                variables[i] = FAdd(start_values[c][i], drawn[c][sample[c] + 1][i])
        /\ (AfterLoop(c) /\ self[c].num_samples >= 1) =>
            /\ Len(drawn[c]) = self[c].num_samples
            /\ \A i \in VarIdx :
                variables[i] = FAdd(start_values[c][i], drawn[c][self[c].num_samples][i])

\* C25 witness: the perturbed loss of the second iteration is due, the first
\* perturbation was not zero and the second differs from it.
C25_Witness ==
    \E c \in Calls :
        /\ AtPerturbedLoss(c)
        /\ pc[c] = "assign"
        /\ sample[c] = 1
        /\ \E i \in VarIdx :
            /\ drawn[c][1][i] # F(0)
            /\ drawn[c][2][i] # drawn[c][1][i]
            /\ drawn[c][2][i] # F(0)

\* C27: with learning_rate = 0 and num_samples >= 1 every perturbation is zero,
\* no write of the step changes a variable, every perturbed loss ties with the
\* unperturbed loss, and a step that returns returns zeros.
C27_ZeroLearningRateIsNoOp ==
    \A c \in Calls :
        (status[c] \in {"running", "done", "failed"} /\ self[c].learning_rate = 0
            /\ self[c].num_samples >= 1) =>
            /\ variables = start_values[c]
            /\ \A k \in 1 .. Len(drawn[c]) : drawn[c][k] = Zeros
            /\ "unperturbed_loss" \in evaluated[c] =>
                \A k \in 1 .. Len(losses[c]) : losses[c][k] = unperturbed_loss[c]
            /\ status[c] = "done" => returned[c] = Zeros

\* C27 witness: a returned step of two samples with learning_rate = 0, on
\* variables that are not zero, under a loss of the variables.
C27_Witness ==
    \E c \in Calls :
        /\ status[c] = "done"
        /\ self[c].learning_rate = 0
        /\ self[c].num_samples = 2
        /\ self[c].fn = "quadratic"
        /\ Len(losses[c]) = 2
        /\ written[c] = [i \in VarIdx |-> 3]

\* ------------------------------------------------------- SubsamplingStep.step

\* Largest batch size (rows of the reward argument).
MaxBatch == 3

\* The fraction parameter takes the values 0, 1/FracDen, ..., 1.
FracDen == 4

\* Longest history window of a transition.
MaxHorizon == 2

Max(a, b) == IF a >= b THEN a ELSE b

\* Mutant: the product is rounded to the nearest integer instead of truncated.
NumSamplesRounded(frac, batch_size) == Max((2 * frac * batch_size + FracDen) \div (2 * FracDen), 1)

\* Mutant: the count is not raised to one.
NumSamplesNoMinimum(frac, batch_size) == (frac * batch_size) \div FracDen

\* num_samples: fraction * float(batch_size), cast to int (which truncates), at
\* least one.
NumSamples(frac, batch_size) == Max((frac * batch_size) \div FracDen, 1)

\* tf.gather(params=x, indices=indices), indices counted from 0.
Gather(params, idx) == [j \in 1 .. Len(idx) |-> params[idx[j] + 1]]

\* tf.range(start=h[0], limit=(h[0] + h[1])).
Range(start, limit) == [k \in 1 .. Max(limit - start, 0) |-> start + k - 1]

\* tf.foldl over the gathered horizons: the ranges of the windows, concatenated.
RECURSIVE SubsampledStatesIndices(_)
SubsampledStatesIndices(hs) ==
    IF hs = << >> THEN << >>
    ELSE SubsampledStatesIndices(SubSeq(hs, 1, Len(hs) - 1))
            \o Range(hs[Len(hs)][1], hs[Len(hs)][1] + hs[Len(hs)][2])

\* tf.math.cumsum(x=horizons[:, 1], exclusive=True), entry j.
RECURSIVE CumSum(_, _)
CumSum(hs, j) == IF j <= 1 THEN 0 ELSE CumSum(hs, j - 1) + hs[j - 1][2]

\* is_one_horizons: every transition of the batch has a window of length one.
IsOneHorizons(hs) == \A b \in 1 .. Len(hs) : hs[b][2] = 1

\* states is not None.
HasStates(args) == {"states", "horizons"} \subseteq DOMAIN args

\* Mutant: the shortcut gathers the first rows of the states, one per sample.
StatesIndicesFirstRows(args, idx) ==
    IF IsOneHorizons(args["horizons"]) THEN [j \in 1 .. Len(idx) |-> j - 1]
    ELSE SubsampledStatesIndices(Gather(args["horizons"], idx))

\* The indices the states are gathered with.
StatesIndices(args, idx) ==
    IF IsOneHorizons(args["horizons"]) THEN idx
    ELSE SubsampledStatesIndices(Gather(args["horizons"], idx))

\* Mutant: the gathered horizons keep their offsets into the original buffer.
SubsampledHorizonsOriginalOffsets(hs) == hs

\* tf.stack((cumsum, horizons[:, 1]), axis=1) of the gathered horizons.
SubsampledHorizons(hs) == [j \in 1 .. Len(hs) |-> <<CumSum(hs, j), hs[j][2]>>]

\* Mutant: with states present, every argument is gathered with the indices of
\* the states (a row outside the argument reads as 0).
SubsampledAllExpanded(args, idx) ==
    [name \in DOMAIN args |->
        IF HasStates(args) /\ name = "horizons"
        THEN SubsampledHorizons(Gather(args["horizons"], idx))
        ELSE IF HasStates(args)
        THEN LET sidx == StatesIndices(args, idx)
             IN [j \in 1 .. Len(sidx) |->
                    IF sidx[j] + 1 \in DOMAIN args[name] THEN args[name][sidx[j] + 1] ELSE 0]
        ELSE Gather(args[name], idx)]

\* subsampled_arguments, entry by entry.
Subsampled(args, idx) ==
    [name \in DOMAIN args |->
        IF HasStates(args) /\ name = "states"
        THEN Gather(args["states"], StatesIndices(args, idx))
        ELSE IF HasStates(args) /\ name = "horizons"
        THEN SubsampledHorizons(Gather(args["horizons"], idx))
        ELSE Gather(args[name], idx)]

\* A batch: rows are told apart by their values; the history windows of the
\* transitions follow each other in the states buffer.
Rows(first, n) == [k \in 1 .. n |-> first + k - 1]

Horizons(lens) == [b \in 1 .. Len(lens) |-> <<CumSum([k \in 1 .. Len(lens) |-> <<0, lens[k]>>], b), lens[b]>>]

TotalLen(lens) == CumSum([k \in 1 .. Len(lens) |-> <<0, lens[k]>>], Len(lens) + 1)

Batches ==
    UNION {
        {[reward |-> Rows(100, b), action |-> Rows(200, b)]}
        \cup {[reward |-> Rows(100, b), states |-> Rows(300, b)]}
        \cup {[reward |-> Rows(100, b), action |-> Rows(200, b),
               states |-> Rows(300, TotalLen(lens)), horizons |-> Horizons(lens)]
              : lens \in [1 .. b -> 1 .. MaxHorizon]}
        : b \in 1 .. MaxBatch}

\* The Evolutionary optimizer is not called.
InitNoCalls == InitCalls(<<0>>, [c \in Calls |-> NoConfig], [c \in Calls |-> "off"])

InitSub ==
    /\ InitNoCalls
    /\ InitNoOU
    /\ InitNoNet
    /\ InitNoPD
    /\ arguments \in Batches
    /\ fraction \in 0 .. FracDen
    /\ indices = << >>
    /\ subsampled_arguments = << >>
    /\ sub_status = "idle"

\* step: sample the indices, gather, hand the result to the wrapped optimizer
\* (whose deltas are returned as they are).
SubsamplingStep ==
    /\ sub_status = "idle"
    /\ LET batch_size == Len(arguments["reward"])
           num_samples == NumSamples(fraction, batch_size)
       IN \E idx \in [1 .. num_samples -> 0 .. batch_size - 1] :
            /\ indices' = idx
            /\ subsampled_arguments' = Subsampled(arguments, idx)
    /\ sub_status' = "done"
    /\ UNCHANGED <<evoVars, ouVars, netVars, pdVars, arguments, fraction>>

NextSub == SubsamplingStep

SpecSub == InitSub /\ [][NextSub]_vars

\* ---------------------------------------------------- SubsamplingStep: claims

\* fraction * batch_size rounded to the nearest integer (halves to even).
Rounded(frac, batch_size) ==
    LET p == frac * batch_size
        q == p \div FracDen
        r == p % FracDen
    IN IF 2 * r < FracDen THEN q
       ELSE IF 2 * r > FracDen THEN q + 1
       ELSE IF q % 2 = 0 THEN q ELSE q + 1

\* C10 (as claimed): step draws max(1, round(fraction * batch_size)) indices.
C10_DrawsRoundedCount ==
    sub_status = "done" =>
        Len(indices) = Max(1, Rounded(fraction, Len(arguments["reward"])))

\* C10 (amended): step draws max(1, floor(fraction * batch_size)) indices: the
\* count n is at least 1, it is 1 or at most fraction * batch_size, and n + 1
\* exceeds fraction * batch_size; every index is a row of the batch.
C10_DrawsTruncatedCount ==
    sub_status = "done" =>
        LET n == Len(indices)
            p == fraction * Len(arguments["reward"])
        IN /\ n >= 1
           /\ n = 1 \/ n * FracDen <= p
           /\ (n + 1) * FracDen > p
           /\ \A j \in 1 .. n : indices[j] \in 0 .. Len(arguments["reward"]) - 1

\* C10 witness: a step on a batch of three with fraction 1/2 (the product is 1.5,
\* where truncation and rounding differ) that drew one index.
C10_Witness ==
    /\ sub_status = "done"
    /\ Len(arguments["reward"]) = 3
    /\ 2 * fraction = FracDen
    /\ Len(indices) = 1

\* C11: the minibatch handed to the wrapped optimizer has at least one row in
\* each of its arguments, for every fraction in [0, 1] and batch size >= 1.
C11_MinibatchHasARow ==
    sub_status = "done" =>
        /\ DOMAIN subsampled_arguments = DOMAIN arguments
        /\ \A name \in DOMAIN subsampled_arguments : Len(subsampled_arguments[name]) >= 1

\* C11 witness: a step whose fraction * batch_size truncates to zero and that
\* handed on one row.
C11_Witness ==
    /\ sub_status = "done"
    /\ fraction * Len(arguments["reward"]) < FracDen
    /\ Len(subsampled_arguments["reward"]) = 1

\* The history expansion is performed: states and horizons are given and some
\* transition has a window longer than one.
Expanded ==
    /\ sub_status = "done"
    /\ HasStates(arguments)
    /\ \E b \in 1 .. Len(arguments["horizons"]) : arguments["horizons"][b][2] # 1

\* C12: after a history expansion the recomputed horizons are (offset, length)
\* pairs, the first offset 0, each next offset the previous offset plus length,
\* length j the original length of transition indices[j]; the lengths sum to
\* the number of subsampled state rows, and window j of the subsampled states
\* holds the original state rows of that transition's window, in order.
C12_HorizonsCoverGatheredWindows ==
    Expanded =>
        LET hs == subsampled_arguments["horizons"]
            st == subsampled_arguments["states"]
            orig == arguments["horizons"]
            n == Len(indices)
        IN /\ Len(hs) = n
           /\ hs[1][1] = 0
           /\ \A j \in 1 .. n : hs[j][2] = orig[indices[j] + 1][2]
           /\ \A j \in 1 .. n - 1 : hs[j + 1][1] = hs[j][1] + hs[j][2]
           /\ Len(st) = hs[n][1] + hs[n][2]
           /\ \A j \in 1 .. n : \A k \in 1 .. hs[j][2] :
                st[hs[j][1] + k] = arguments["states"][orig[indices[j] + 1][1] + k]

\* C12 witness: two transitions sampled, the first with a window of two rows that
\* does not start the original buffer.
C12_Witness ==
    /\ Expanded
    /\ Len(indices) >= 2
    /\ arguments["horizons"][indices[1] + 1][2] = 2
    /\ arguments["horizons"][indices[1] + 1][1] > 0
    /\ subsampled_arguments["horizons"][2][1] = 2

C14_OthersGatheredByOriginalIndices ==
    (sub_status = "done" /\ HasStates(arguments)) =>
        /\ \A name \in DOMAIN arguments \ {"states", "horizons"} :
            /\ name \in DOMAIN subsampled_arguments
            /\ Len(subsampled_arguments[name]) = Len(indices)
            /\ \A j \in 1 .. Len(indices) :
                subsampled_arguments[name][j] = arguments[name][indices[j] + 1]
        /\ subsampled_arguments["states"] =
            Gather(arguments["states"],
                   SubsampledStatesIndices(Gather(arguments["horizons"], indices)))

\* C14 witness: an expansion whose list is longer than the sampled indices.
C14_Witness ==
    /\ Expanded
    /\ Len(subsampled_arguments["states"]) > Len(indices)
    /\ Len(subsampled_arguments["action"]) = Len(indices)

\* ------------------------------------------------------- OrnsteinUhlenbeck

\* Most value requests made of one parameter.
MaxRequests == 2

\* theta takes the values 0, 1/ThetaDen, ..., 1.
ThetaDen == 2

RECURSIVE Power(_, _)
Power(b, e) == IF e = 0 THEN 1 ELSE b * Power(b, e - 1)

\* The floats of the process are counted in units of 1 / OUUnit, fine enough that
\* MaxRequests multiplications by theta of a multiple of 1/ThetaDen are exact.
OUUnit == Power(ThetaDen, MaxRequests + 1)

\* Python's None.
None == << >>

\* The mu argument: -1, 0, 1/ThetaDen, 1.
Mus == {0 - OUUnit, 0, OUUnit \div ThetaDen, OUUnit}

\* The sigma argument: 0, 1.
Sigmas == {0, 1}

\* The declared type of the parameter (self.spec.type).
Types == {"float", "int"}

\* What the base reports as lower bound: none, or -1.
BaseMinValues == {None, F(0 - OUUnit)}

OUConfigs == [theta : 0 .. ThetaDen, sigma : Sigmas, mu : Mus, absolute : BOOLEAN,
              type : Types, base_min_value : BaseMinValues]

\* tf.math.abs.
Abs(x) == IF x < 0 THEN 0 - x ELSE x

\* Parameter.min_value of the base class.
ParameterMinValue(slf) == slf.base_min_value

\* self.add_variable(name='process', ..., initializer=self.mu): the variable is
\* created with its initial value once and is the same variable afterwards.
AddVariable(current, initializer) == IF current = << >> THEN F(initializer) ELSE current

\* Mutant: the noise is not scaled by sigma.
DeltaUnscaledNoise(slf, proc, noise) ==
    (slf.theta * (slf.mu - proc)) \div ThetaDen + noise * OUUnit

\* Mutant: the drift points away from mu.
DeltaDriftReversed(slf, proc, noise) ==
    (slf.theta * (proc - slf.mu)) \div ThetaDen + slf.sigma * noise * OUUnit

\* delta = theta * (mu - process) + sigma * tf.random.normal(shape=()).
Delta(slf, proc, noise) ==
    (slf.theta * (slf.mu - proc)) \div ThetaDen + slf.sigma * noise * OUUnit

\* Mutant: the absolute value is not taken.
AssignedAddsDelta(slf, proc, delta) == proc + delta

\* The new value of the variable: process.assign(abs(process + delta)) or
\* process.assign_add(delta).
Assigned(slf, proc, delta) == IF slf.absolute THEN Abs(proc + delta) ELSE proc + delta

\* tf_util.cast(x, dtype=self.spec.type) and self.spec.py_type()(x): a float
\* stays as it is, an int drops the fraction (towards zero).
Cast(type, x) ==
    IF type # "int" THEN x
    ELSE IF x < 0 THEN 0 - ((0 - x) \div OUUnit) * OUUnit
    ELSE (x \div OUUnit) * OUUnit

\* min_value(): the base's result is computed and dropped in the else branch,
\* which ends without a return.
MinValue(slf) ==
    IF slf.absolute THEN F(Cast(slf.type, 0))
    ELSE LET dropped == ParameterMinValue(slf) IN None

\* The Evolutionary optimizer and SubsamplingStep are not called.
InitOU ==
    /\ InitNoCalls
    /\ InitNoSub
    /\ InitNoNet
    /\ InitNoPD
    /\ ou_self \in OUConfigs
    /\ process = << >>
    /\ parameter = << >>
    /\ requests = << >>
    /\ min_values = << >>
    /\ ou_status = "on"

\* parameter_value: one value request.
ParameterValue ==
    /\ ou_status = "on"
    /\ Len(requests) < MaxRequests
    /\ \E noise \in Noise :
        LET proc == Val(AddVariable(process, ou_self.mu))
            delta == Delta(ou_self, proc, noise)
            new == Assigned(ou_self, proc, delta)
        IN /\ process' = F(new)
           /\ parameter' = F(Cast(ou_self.type, new))
           /\ requests' = Append(requests, [process |-> proc, noise |-> noise, updated |-> new])
    /\ UNCHANGED <<evoVars, subVars, netVars, pdVars, ou_self, min_values, ou_status>>

\* min_value: one call.
CallMinValue ==
    /\ ou_status = "on"
    /\ min_values = << >>
    /\ min_values' = Append(min_values, MinValue(ou_self))
    /\ UNCHANGED <<evoVars, subVars, netVars, pdVars, ou_self, process, parameter, requests, ou_status>>

NextOU == ParameterValue \/ CallMinValue

SpecOU == InitOU /\ [][NextOU]_vars

\* ---------------------------------------------------- OrnsteinUhlenbeck: claims

\* A value has been requested.
Requested == ou_status = "on" /\ requests # << >>

\* C15 (as claimed): with theta = 0 and sigma = 0 every returned value equals
\* mu, for any mu and either setting of absolute (here for a float parameter).
C15_DegenerateStaysAtMu ==
    (Requested /\ ou_self.theta = 0 /\ ou_self.sigma = 0 /\ ou_self.type = "float")
    => parameter = F(ou_self.mu)

\* C15 (amended): with theta = 0 and sigma = 0 every returned value is the same:
\* mu when absolute is off, |mu| when it is on, a float parameter returning it as
\* it is and an int parameter its whole part.
C15_DegenerateStaysConstant ==
    (Requested /\ ou_self.theta = 0 /\ ou_self.sigma = 0) =>
        LET m == IF ou_self.absolute /\ ou_self.mu < 0 THEN 0 - ou_self.mu ELSE ou_self.mu
            v == Val(parameter)
        IN /\ process = F(m)
           /\ ou_self.type = "float" => v = m
           /\ ou_self.type = "int" =>
                /\ v % OUUnit = 0
                /\ IF m >= 0 THEN v <= m /\ m < v + OUUnit ELSE v >= m /\ m > v - OUUnit

\* C15 witness: the second request of a degenerate process with absolute on and
\* a negative mu, which returned -mu.
C15_Witness ==
    /\ Requested
    /\ Len(requests) = 2
    /\ ou_self.theta = 0 /\ ou_self.sigma = 0
    /\ ou_self.absolute /\ ou_self.mu < 0
    /\ parameter = F(0 - ou_self.mu)

\* C16: with absolute on, every returned value is >= 0.
C16_AbsoluteIsNonNegative ==
    (Requested /\ ou_self.absolute) => Val(parameter) >= 0

\* C16 witness: with absolute on, a request whose process plus delta was
\* negative, after an earlier request.
C16_Witness ==
    /\ Requested
    /\ ou_self.absolute
    /\ Len(requests) = 2
    /\ LET r == requests[2]
       IN r.process + (ou_self.theta * (ou_self.mu - r.process)) \div ThetaDen
            + ou_self.sigma * r.noise * OUUnit < 0
    /\ Val(parameter) > 0

\* C17: min_value() returns 0 with absolute on and otherwise the lower bound
\* the base Parameter's min_value() reports.
C17_MinValueZeroOrBase ==
    \A k \in 1 .. Len(min_values) :
        min_values[k] = IF ou_self.absolute THEN F(0) ELSE ParameterMinValue(ou_self)

\* C18 (as claimed): a request returns the updated state.
C18_ReturnsUpdatedState ==
    Requested => parameter = process

\* C18 (amended): one persistent state; the first request starts from mu, each
\* later one from the state the previous request stored; a request stores
\* process + theta * (mu - process) + sigma * noise, or its absolute value with
\* absolute on, and returns the stored state cast to the declared type: as it
\* is for a float parameter, its whole part for an int parameter.
C18_PersistentProcessUpdatedPerRequest ==
    /\ (ou_status = "on" /\ requests = << >>) => process = << >> /\ parameter = << >>
    /\ Requested =>
        LET n == Len(requests)
            v == Val(parameter)
            x == Val(process)
        IN /\ requests[1].process = ou_self.mu
           /\ \A k \in 1 .. n - 1 : requests[k + 1].process = requests[k].updated
           /\ \A k \in 1 .. n :
                LET r == requests[k]
                    sum == r.process * ThetaDen + ou_self.theta * (ou_self.mu - r.process)
                             + ou_self.sigma * r.noise * OUUnit * ThetaDen
                IN r.updated * ThetaDen = IF ou_self.absolute /\ sum < 0 THEN 0 - sum ELSE sum
           /\ x = requests[n].updated
           /\ ou_self.type = "float" => v = x
           /\ ou_self.type = "int" =>
                /\ v % OUUnit = 0
                /\ IF x >= 0 THEN v <= x /\ x < v + OUUnit ELSE v >= x /\ x > v - OUUnit

\* C18 witness: the second request of an int parameter, started away from mu,
\* whose stored state has a fraction.
C18_Witness ==
    /\ Requested
    /\ Len(requests) = 2
    /\ requests[2].process # ou_self.mu
    /\ ou_self.type = "int"
    /\ parameter # process

\* ------------------------------------------------------ AutoNetwork.__init__

\* Most inputs of a network.
MaxInputs == 2

\* Largest rank of an input.
MaxRank == 4

\* Largest depth and final_depth.
MaxDepth == 2

\* Names of the inputs, in the order of inputs_spec.
InputNames == [k \in 1 .. MaxInputs |-> "state" \o ToString(k)]

\* One input's spec: its type and its shape, rank the length of the shape.
InputSpecs ==
    [type : {"bool", "int", "float"}, rank : 0 .. MaxRank]

Shape(rank) == [d \in 1 .. rank |-> 2]

\* inputs_spec: name -> spec, in order.
InputsSpecs ==
    UNION {{[k \in 1 .. n |-> [name |-> InputNames[k], type |-> f[k].type, rank |-> f[k].rank,
                                shape |-> Shape(f[k].rank)]]
            : f \in [1 .. n -> InputSpecs]} : n \in 1 .. MaxInputs}

\* The rnn argument: False, or a horizon >= 0.
RnnFalse == << >>

\* The constructor's arguments: size (its default), depth, final_size (None or
\* a size), final_depth, rnn.
NetArgs ==
    [size : {64}, depth : 1 .. MaxDepth, final_size : {None, F(32)},
     final_depth : 1 .. MaxDepth, rnn : {RnnFalse, F(0), F(1)}]

\* requires_embedding, and its value as an int.
RequiresEmbedding(spec) == spec.type = "bool" \/ spec.type = "int"

AsInt(b) == IF b THEN 1 ELSE 0

\* The else branch of the shape-specific choice: the constructor raises.
RaisesRank(spec) ==
    /\ spec.rank # 1 - AsInt(RequiresEmbedding(spec))
    /\ spec.rank # 2 - AsInt(RequiresEmbedding(spec))
    /\ spec.rank # 3 - AsInt(RequiresEmbedding(spec))
    /\ spec.rank # 0

\* The fourth branch: a flatten layer is added.
Flattens(spec) ==
    /\ spec.rank # 1 - AsInt(RequiresEmbedding(spec))
    /\ spec.rank # 2 - AsInt(RequiresEmbedding(spec))
    /\ spec.rank # 3 - AsInt(RequiresEmbedding(spec))
    /\ spec.rank = 0

\* Mutant: the layer type is chosen by the rank alone.
LayerTypeByRankAlone(spec) ==
    IF spec.rank = 1 THEN "dense"
    ELSE IF spec.rank = 2 THEN "conv1d"
    ELSE IF spec.rank = 3 THEN "conv2d"
    ELSE "dense"

\* Shape-specific layer type.
LayerType(spec) ==
    IF spec.rank = 1 - AsInt(RequiresEmbedding(spec)) THEN "dense"
    ELSE IF spec.rank = 2 - AsInt(RequiresEmbedding(spec)) THEN "conv1d"
    ELSE IF spec.rank = 3 - AsInt(RequiresEmbedding(spec)) THEN "conv2d"
    ELSE "dense"

\* range(n) as the sequence 0, ..., n - 1 (empty for n <= 0).
PyRange(n) == [k \in 1 .. n |-> k - 1]

\* Mutant: the embedding does not take a layer off the depth.
StateLayersFullDepth(spec, size, depth) ==
    <<[type |-> "retrieve", name |-> spec.name \o "_retrieve", tensors |-> <<spec.name>>]>>
    \o (IF RequiresEmbedding(spec)
        THEN <<[type |-> "embedding", name |-> spec.name \o "_embedding", size |-> size]>>
        ELSE << >>)
    \o (IF Flattens(spec) THEN <<[type |-> "flatten", name |-> spec.name \o "_flatten"]>> ELSE << >>)
    \o [n \in DOMAIN PyRange(depth) |->
            [type |-> LayerType(spec),
             name |-> spec.name \o "_" \o LayerType(spec) \o ToString(PyRange(depth)[n]),
             size |-> size]]
    \o (IF Len(spec.shape) > 1 - AsInt(RequiresEmbedding(spec))
        THEN <<[type |-> "pooling", name |-> spec.name \o "_pooling", reduction |-> "max"]>>
        ELSE << >>)
    \o <<[type |-> "register", name |-> spec.name \o "_register",
          tensor |-> spec.name \o "-embedding"]>>

\* state_layers of one input.
StateLayers(spec, size, depth) ==
    <<[type |-> "retrieve", name |-> spec.name \o "_retrieve", tensors |-> <<spec.name>>]>>
    \o (IF RequiresEmbedding(spec)
        THEN <<[type |-> "embedding", name |-> spec.name \o "_embedding", size |-> size]>>
        ELSE << >>)
    \o (IF Flattens(spec) THEN <<[type |-> "flatten", name |-> spec.name \o "_flatten"]>> ELSE << >>)
    \o [n \in DOMAIN PyRange(depth - AsInt(RequiresEmbedding(spec))) |->
            [type |-> LayerType(spec),
             name |-> spec.name \o "_" \o LayerType(spec)
                        \o ToString(PyRange(depth - AsInt(RequiresEmbedding(spec)))[n]),
             size |-> size]]
    \o (IF Len(spec.shape) > 1 - AsInt(RequiresEmbedding(spec))
        THEN <<[type |-> "pooling", name |-> spec.name \o "_pooling", reduction |-> "max"]>>
        ELSE << >>)
    \o <<[type |-> "register", name |-> spec.name \o "_register",
          tensor |-> spec.name \o "-embedding"]>>

\* final_size, defaulted to size.
FinalSize(args) == IF args.final_size = None THEN args.size ELSE Val(args.final_size)

\* Mutant: the dense layers are added for a single input too.
FinalDenseForAnyInputs(specs, args) ==
    [n \in DOMAIN PyRange(args.final_depth) |->
        [type |-> "dense", name |-> "dense" \o ToString(PyRange(args.final_depth)[n]),
         size |-> FinalSize(args)]]

\* The dense layers of the final pipeline.
FinalDense(specs, args) ==
    IF Len(specs) > 1
    THEN [n \in DOMAIN PyRange(args.final_depth) |->
            [type |-> "dense", name |-> "dense" \o ToString(PyRange(args.final_depth)[n]),
             size |-> FinalSize(args)]]
    ELSE << >>

\* Mutant: the lstm is added when rnn is truthy, so not for rnn = 0.
FinalLayersRnnTruthy(specs, args) ==
    <<[type |-> "retrieve", name |-> "retrieve",
       tensors |-> [k \in DOMAIN specs |-> specs[k].name \o "-embedding"],
       aggregation |-> "concat"]>>
    \o FinalDense(specs, args)
    \o (IF args.rnn # RnnFalse /\ args.rnn # F(0)
        THEN <<[type |-> "lstm", name |-> "lstm", size |-> FinalSize(args),
                horizon |-> Val(args.rnn)]>>
        ELSE << >>)

\* final_layers.
FinalLayers(specs, args) ==
    <<[type |-> "retrieve", name |-> "retrieve",
       tensors |-> [k \in DOMAIN specs |-> specs[k].name \o "-embedding"],
       aggregation |-> "concat"]>>
    \o FinalDense(specs, args)
    \o (IF args.rnn # RnnFalse
        THEN <<[type |-> "lstm", name |-> "lstm", size |-> FinalSize(args),
                horizon |-> Val(args.rnn)]>>
        ELSE << >>)

\* Nothing else is in use.
InitNet ==
    /\ InitNoCalls
    /\ InitNoSub
    /\ InitNoOU
    /\ InitNoPD
    /\ inputs_spec \in InputsSpecs
    /\ net_args \in NetArgs
    /\ layers = << >>
    /\ net_error = << >>
    /\ net_status = "idle"

\* __init__ raises at the first input whose rank has no layer type; nothing is
\* handed to LayeredNetwork.
ConstructRaises ==
    /\ net_status = "idle"
    /\ \E k \in DOMAIN inputs_spec :
        /\ RaisesRank(inputs_spec[k])
        /\ \A j \in 1 .. k - 1 : ~RaisesRank(inputs_spec[j])
        /\ net_error' = F(inputs_spec[k].rank)
    /\ net_status' = "error"
    /\ UNCHANGED <<evoVars, subVars, ouVars, pdVars, inputs_spec, net_args, layers>>

\* __init__ builds the pipelines of the inputs and the final pipeline and hands
\* them to LayeredNetwork.
Construct ==
    /\ net_status = "idle"
    /\ \A k \in DOMAIN inputs_spec : ~RaisesRank(inputs_spec[k])
    /\ layers' = [k \in DOMAIN inputs_spec |->
                    StateLayers(inputs_spec[k], net_args.size, net_args.depth)]
                 \o <<FinalLayers(inputs_spec, net_args)>>
    /\ net_status' = "built"
    /\ UNCHANGED <<evoVars, subVars, ouVars, pdVars, inputs_spec, net_args, net_error>>

NextNet == Construct \/ ConstructRaises

SpecNet == InitNet /\ [][NextNet]_vars

\* ------------------------------------------------------ AutoNetwork: claims

\* The shape-specific layers of a pipeline, by position.
ShapeLayers(pipeline) ==
    {i \in DOMAIN pipeline : pipeline[i].type \in {"dense", "conv1d", "conv2d"}}

FlattenLayers(pipeline) == {i \in DOMAIN pipeline : pipeline[i].type = "flatten"}

\* The table rank -> layer type.
TableType(rank) ==
    IF rank = 2 THEN "conv1d" ELSE IF rank = 3 THEN "conv2d" ELSE "dense"

\* The rank of an input after its embedding: one more for bool and int inputs.
EmbeddedRank(spec) == spec.rank + (IF spec.type \in {"bool", "int"} THEN 1 ELSE 0)

\* C19 (as claimed): every input of rank 0 to 3, of any type, gets the layer
\* type of the table by its rank, rank 0 a flatten followed by dense, and a
\* value error is raised exactly for inputs of rank > 3.
C19_LayerTypeFollowsRank ==
    /\ net_status \in {"built", "error"} =>
        (net_status = "error" <=> \E k \in DOMAIN inputs_spec : inputs_spec[k].rank > 3)
    /\ net_status = "built" =>
        \A k \in DOMAIN inputs_spec :
            /\ \A i \in ShapeLayers(layers[k]) : layers[k][i].type = TableType(inputs_spec[k].rank)
            /\ inputs_spec[k].rank = 0 <=> FlattenLayers(layers[k]) # {}

\* C19 (amended): the layer type follows the rank after embedding (rank + 1 for
\* bool and int inputs): 1 -> dense, 2 -> conv1d, 3 -> conv2d, 0 -> flatten
\* followed by dense; a value error naming the rank of the first such input is
\* raised exactly when some input's rank after embedding is > 3.
C19_LayerTypeFollowsEmbeddedRank ==
    /\ net_status \in {"built", "error"} =>
        (net_status = "error" <=> \E k \in DOMAIN inputs_spec : EmbeddedRank(inputs_spec[k]) > 3)
    /\ net_status = "error" =>
        \E k \in DOMAIN inputs_spec :
            /\ EmbeddedRank(inputs_spec[k]) > 3
            /\ \A j \in 1 .. k - 1 : EmbeddedRank(inputs_spec[j]) <= 3
            /\ net_error = F(inputs_spec[k].rank)
    /\ net_status = "built" =>
        \A k \in DOMAIN inputs_spec :
            /\ \A i \in ShapeLayers(layers[k]) :
                /\ layers[k][i].type = TableType(EmbeddedRank(inputs_spec[k]))
                /\ \A f \in FlattenLayers(layers[k]) : f < i
            /\ EmbeddedRank(inputs_spec[k]) = 0 <=> FlattenLayers(layers[k]) # {}

\* C19 witness: a built network with an int input of rank 1, whose layers are
\* conv1d, and a float input of rank 0 with its flatten.
C19_Witness ==
    /\ net_status = "built"
    /\ \E k \in DOMAIN inputs_spec :
        /\ inputs_spec[k].type = "int" /\ inputs_spec[k].rank = 1
        /\ \E i \in ShapeLayers(layers[k]) : layers[k][i].type = "conv1d"
    /\ \E k \in DOMAIN inputs_spec :
        /\ inputs_spec[k].type = "float" /\ inputs_spec[k].rank = 0
        /\ FlattenLayers(layers[k]) # {}

\* C20: the merge pipeline is the last of N + 1; it starts with a concatenating
\* retrieve over the N keys '<input_name>-embedding' in input order; with N > 1
\* exactly final_depth dense layers of size final_size follow, with N = 1 none.
C20_MergePipeline ==
    net_status = "built" =>
        LET n == Len(inputs_spec)
            final == layers[Len(layers)]
            dense == {i \in DOMAIN final : final[i].type = "dense"}
            final_size == IF net_args.final_size = None THEN net_args.size
                          ELSE Val(net_args.final_size)
        IN /\ Len(layers) = n + 1
           /\ final[1].type = "retrieve"
           /\ final[1].aggregation = "concat"
           /\ Len(final[1].tensors) = n
           /\ \A k \in 1 .. n : final[1].tensors[k] = inputs_spec[k].name \o "-embedding"
           /\ \A k \in 1 .. n : layers[k][Len(layers[k])].tensor = final[1].tensors[k]
           /\ n > 1 => /\ dense = 2 .. net_args.final_depth + 1
                       /\ \A i \in dense : final[i].size = final_size
           /\ n = 1 => dense = {}

\* C20 witness: two inputs, final_depth 2, a final_size given: a retrieve and two
\* dense layers.
C20_Witness ==
    /\ net_status = "built"
    /\ Len(inputs_spec) = 2
    /\ net_args.final_depth = 2
    /\ net_args.final_size # None
    /\ Len(layers) = 3
    /\ layers[3][3].type = "dense"

\* The lstm layers of a pipeline, by position.
LstmLayers(pipeline) == {i \in DOMAIN pipeline : pipeline[i].type = "lstm"}

\* C21: with rnn not False (rnn = 0 too) the last layer of the final pipeline is
\* an lstm with horizon rnn and size final_size, the only lstm of the network;
\* with rnn False no pipeline has an lstm layer.
C21_LstmIsLastIffRnn ==
    net_status = "built" =>
        LET final == layers[Len(layers)]
            final_size == IF net_args.final_size = None THEN net_args.size
                          ELSE Val(net_args.final_size)
        IN /\ \A k \in 1 .. Len(layers) - 1 : LstmLayers(layers[k]) = {}
           /\ net_args.rnn = RnnFalse => LstmLayers(final) = {}
           /\ net_args.rnn # RnnFalse =>
                /\ LstmLayers(final) = {Len(final)}
                /\ final[Len(final)].horizon = net_args.rnn[1]
                /\ final[Len(final)].size = final_size

\* C21 witness: one input, rnn = 0: the final pipeline is the retrieve and the
\* lstm of horizon 0.
C21_Witness ==
    /\ net_status = "built"
    /\ Len(inputs_spec) = 1
    /\ net_args.rnn = F(0)
    /\ Len(layers[2]) = 2
    /\ layers[2][2].type = "lstm"
    /\ layers[2][2].horizon = 0

\* C26: with depth >= 1 the pipeline of a float input has exactly depth layers
\* of its shape-specific type and that of a bool or int input depth - 1, all
\* after the retrieve (the first layer) and before the register under
\* '<input_name>-embedding' (the last layer).
C26_DepthManyShapeLayers ==
    net_status = "built" =>
        \A k \in DOMAIN inputs_spec :
            LET pipeline == layers[k]
                spec == inputs_spec[k]
                embedded == spec.type \in {"bool", "int"}
            IN /\ Cardinality(ShapeLayers(pipeline))
                    = net_args.depth - (IF embedded THEN 1 ELSE 0)
               /\ pipeline[1].type = "retrieve"
               /\ pipeline[1].tensors = <<spec.name>>
               /\ pipeline[Len(pipeline)].type = "register"
               /\ pipeline[Len(pipeline)].tensor = spec.name \o "-embedding"
               /\ \A i \in ShapeLayers(pipeline) :
                    /\ 1 < i /\ i < Len(pipeline)
                    /\ pipeline[i].type = TableType(EmbeddedRank(spec))
               /\ embedded <=> \E i \in DOMAIN pipeline : pipeline[i].type = "embedding"
               /\ \A i \in DOMAIN pipeline : pipeline[i].type = "embedding" =>
                    \A j \in ShapeLayers(pipeline) : i < j

\* C26 witness: depth 2, an int input with one shape layer after its embedding
\* and a float input with two.
C26_Witness ==
    /\ net_status = "built"
    /\ net_args.depth = 2
    /\ \E k \in DOMAIN inputs_spec :
        inputs_spec[k].type = "int" /\ Cardinality(ShapeLayers(layers[k])) = 1
    /\ \E k \in DOMAIN inputs_spec :
        inputs_spec[k].type = "float" /\ Cardinality(ShapeLayers(layers[k])) = 2

\* ------------------------------------------- ParametrizedDistributions.__init__

\* Most actions of a policy.
MaxActions == 2

\* Names of the actions, in the order of actions_spec.
ActionNames == [k \in 1 .. MaxActions |-> "action" \o ToString(k)]

\* One action's spec: bool, int with its num_values, float without or with
\* bounds.
ActionSpecs ==
    {[type |-> "bool", num_values |-> None, min_value |-> None],
     [type |-> "int", num_values |-> F(3), min_value |-> None],
     [type |-> "float", num_values |-> None, min_value |-> None],
     [type |-> "float", num_values |-> None, min_value |-> F(0)]}

\* actions_spec: name -> spec, in order.
ActionsSpecs ==
    UNION {{[k \in 1 .. n |-> [name |-> ActionNames[k], type |-> f[k].type,
                                num_values |-> f[k].num_values, min_value |-> f[k].min_value]]
            : f \in [1 .. n -> ActionSpecs]} : n \in 1 .. MaxActions}

\* Python values of a module specification: None, a str, a dict.
PyNone == [kind |-> "none", value |-> << >>]
PyStr(x) == [kind |-> "str", value |-> x]
PyDict(f) == [kind |-> "dict", value |-> f]

\* What module.update raises when module is a str.
AttributeError == [kind |-> "AttributeError", value |-> << >>]

\* dict.update: the entries of d are added to m, replacing those of the same key.
Update(m, d) == [k \in DOMAIN m \cup DOMAIN d |-> IF k \in DOMAIN d THEN d[k] ELSE m[k]]

\* The keys of the distributions argument: action types and an action name.
DistributionKeys == {"int", "float", ActionNames[1]}

\* The entries of the distributions argument: a module name or a mapping.
DistributionEntries ==
    {PyStr("beta"),
     PyDict("type" :> "categorical" @@ "temperature_mode" :> "predicted"),
     PyDict("type" :> "gaussian" @@ "stddev_mode" :> "global")}

\* The distributions argument: None, or a dict over some of the keys.
DistributionsArgs ==
    {PyNone} \cup {PyDict(f) : f \in UNION {[K -> DistributionEntries] : K \in SUBSET DistributionKeys}}

\* The constructor's arguments.
PDArgs ==
    [distributions : DistributionsArgs,
     infer_state_value : {"False", "action-values", "distribution"},
     output_type : {"float", "int"}]

\* default_module of an action.
DefaultModule(spec) ==
    IF spec.type = "bool" THEN "bernoulli"
    ELSE IF spec.type = "int" THEN "categorical"
    ELSE IF spec.min_value = None THEN "gaussian" ELSE "beta"

\* module after the entry under the action's type.
TypeModule(distributions, spec) ==
    IF spec.type \in DOMAIN distributions.value
    THEN IF distributions.value[spec.type].kind = "str"
         THEN distributions.value[spec.type]
         ELSE PyDict(Update(<< >>, distributions.value[spec.type].value))
    ELSE PyDict(<< >>)

\* module as handed to add_module: None without distributions, else the entry
\* under the type, then the entry under the name; update on a str raises.
Module(distributions, spec) ==
    IF distributions = PyNone THEN PyNone
    ELSE LET module == TypeModule(distributions, spec) IN
         IF spec.name \in DOMAIN distributions.value
         THEN IF distributions.value[spec.name].kind = "str"
              THEN distributions.value[spec.name]
              ELSE IF module.kind = "str" THEN AttributeError
              ELSE PyDict(Update(module.value, distributions.value[spec.name].value))
         ELSE module

\* What the loop over the actions raises for one action: the assertion on
\* num_values, the update of a str, or nothing.
ActionRaises(distributions, spec) ==
    IF spec.type = "int" /\ spec.num_values = None THEN "AssertionError"
    ELSE IF Module(distributions, spec) = AttributeError THEN "AttributeError"
    ELSE ""

\* The exception of the constructor: the network's output type, then the
\* first action that raises.
ConstructorRaises(specs, args) ==
    IF args.output_type # "float" THEN "TensorforceError.type"
    ELSE IF \E k \in DOMAIN specs : ActionRaises(args.distributions, specs[k]) # ""
    THEN LET k == CHOOSE j \in DOMAIN specs :
                    /\ ActionRaises(args.distributions, specs[j]) # ""
                    /\ \A i \in 1 .. j - 1 : ActionRaises(args.distributions, specs[i]) = ""
         IN ActionRaises(args.distributions, specs[k])
    ELSE ""

\* The policy as constructed: per action the module and default_module handed to
\* add_module, and the value head when infer_state_value is False.
Constructed(specs, args) ==
    [distributions |-> [k \in DOMAIN specs |->
                            [name |-> specs[k].name,
                             module |-> Module(args.distributions, specs[k]),
                             default_module |-> DefaultModule(specs[k])]],
     infer_state_value |-> args.infer_state_value,
     value |-> args.infer_state_value = "False"]

\* Nothing else is in use; the policy is about to be constructed.
InitPD ==
    /\ InitNoCalls
    /\ InitNoSub
    /\ InitNoOU
    /\ InitNoNet
    /\ actions_spec \in ActionsSpecs
    /\ pd_args \in PDArgs
    /\ pd_self = << >>
    /\ pd_error = ""
    /\ auxiliaries = << >>
    /\ network_applied = 0
    /\ pd_result = << >>
    /\ pd_status = "idle"

\* __init__ raises.
PDConstructRaises ==
    /\ pd_status = "idle"
    /\ ConstructorRaises(actions_spec, pd_args) # ""
    /\ pd_error' = ConstructorRaises(actions_spec, pd_args)
    /\ pd_status' = "error"
    /\ UNCHANGED <<evoVars, subVars, ouVars, netVars, actions_spec, pd_args, pd_self,
                   auxiliaries, network_applied, pd_result>>

\* __init__ completes.
PDConstruct ==
    /\ pd_status = "idle"
    /\ ConstructorRaises(actions_spec, pd_args) = ""
    /\ pd_self' = Constructed(actions_spec, pd_args)
    /\ pd_status' = "constructed"
    /\ UNCHANGED <<evoVars, subVars, ouVars, netVars, actions_spec, pd_args, pd_error,
                   auxiliaries, network_applied, pd_result>>

NextPDInit == PDConstruct \/ PDConstructRaises

SpecPDInit == InitPD /\ [][NextPDInit]_vars

\* C23 (as claimed): for a network with float output the construction succeeds
\* for every combination of string-valued and mapping-valued type and name
\* entries, and each action's module is the type entry overridden by the name
\* entry: a string name entry as it is, a mapping name entry key by key.
C23_NameEntryOverridesTypeEntry ==
    (pd_status \in {"constructed", "error"} /\ pd_args.output_type = "float") =>
        /\ pd_status = "constructed"
        /\ pd_args.distributions # PyNone =>
            \A k \in DOMAIN actions_spec :
                LET d == pd_args.distributions.value
                    spec == actions_spec[k]
                    module == pd_self.distributions[k].module
                IN /\ (spec.name \in DOMAIN d /\ d[spec.name].kind = "str") => module = d[spec.name]
                   /\ (spec.name \in DOMAIN d /\ d[spec.name].kind = "dict") =>
                        /\ module.kind = "dict"
                        /\ \A key \in DOMAIN d[spec.name].value :
                            /\ key \in DOMAIN module.value
                            /\ module.value[key] = d[spec.name].value[key]
                        /\ (spec.type \in DOMAIN d /\ d[spec.type].kind = "dict") =>
                            \A key \in DOMAIN d[spec.type].value \ DOMAIN d[spec.name].value :
                                /\ key \in DOMAIN module.value
                                /\ module.value[key] = d[spec.type].value[key]
                   /\ (spec.name \notin DOMAIN d /\ spec.type \in DOMAIN d) =>
                        module = d[spec.type]

\* ------------------------------------------------ ParametrizedDistributions calls

\* mask of an int action: one flag per value, at least one of them True.
Masks(num_values) == {m \in [1 .. num_values -> BOOLEAN] : \E v \in 1 .. num_values : m[v]}

\* The names of the int actions.
IntActions(specs) == {specs[k].name : k \in {j \in DOMAIN specs : specs[j].type = "int"}}

\* The auxiliaries argument: for some of the int actions, the conditions under
\* the action's name, which hold its mask.
Auxiliaries(specs) ==
    UNION {{[name \in K |-> [mask |-> f[name]]] :
                f \in {g \in [K -> UNION {Masks(Val(specs[k].num_values)) :
                                            k \in {j \in DOMAIN specs : specs[j].type = "int"}}] :
                         \A name \in K :
                            DOMAIN g[name] = 1 .. Val(specs[CHOOSE k \in DOMAIN specs : specs[k].name = name].num_values)}}
           : K \in SUBSET IntActions(specs)}

\* conditions of an action when the lookup ignores whose they are: those stored
\* under the first name.
ConditionsOfFirstAction(aux, name) ==
    IF ActionNames[1] \in DOMAIN aux THEN aux[ActionNames[1]] ELSE << >>

\* auxiliaries.get(name, default=TensorDict())
Conditions(aux, name) ==
    IF name \in DOMAIN aux THEN aux[name] ELSE << >>

\* distribution.parametrize: the parameters are kept as the values they leave
\* in the distribution's support; a mask among the conditions of an int action
\* takes the values flagged False out of it.
Parametrize(spec, conditions) ==
    IF spec.type = "bool" THEN {"True", "False"}
    ELSE IF spec.type = "int"
    THEN {v \in 0 .. Val(spec.num_values) - 1 :
            "mask" \in DOMAIN conditions => conditions.mask[v + 1]}
    ELSE {F(0), F(1)}

\* distribution.sample: a value of the support, whatever the temperature.
Sample(parameters) == parameters

\* distribution.all_action_values: one value estimate per value of the support.
AllActionValues(parameters) == [v \in parameters |-> "value"]

\* self.distributions.fmap of sampling: every choice of one sample per action.
RECURSIVE Samples(_)
Samples(supports) ==
    IF supports = << >> THEN {<< >>}
    ELSE {Append(a, v) : a \in Samples(SubSeq(supports, 1, Len(supports) - 1)),
                         v \in supports[Len(supports)]}

\* The test of all_actions_values when it asks for one discrete action only.
SomeDiscrete(specs) == \E k \in DOMAIN specs : specs[k].type \in {"bool", "int"}

\* all(spec.type in ('bool', 'int') for spec in self.actions_spec.values())
AllDiscrete(specs) == \A k \in DOMAIN specs : specs[k].type \in {"bool", "int"}

\* A policy with the default distributions is about to be constructed and used.
InitPDCalls ==
    /\ InitPD
    /\ pd_args.distributions = PyNone

\* act, which hands over to sample_actions: the network is applied, then each
\* action is sampled from its distribution parametrized with its conditions.
SampleActions ==
    /\ pd_status = "constructed"
    /\ \E aux \in Auxiliaries(actions_spec), return_internals \in BOOLEAN :
        \E actions \in Samples([k \in DOMAIN actions_spec |->
                                    Sample(Parametrize(actions_spec[k],
                                                       Conditions(aux, actions_spec[k].name)))]) :
            /\ auxiliaries' = aux
            /\ network_applied' = network_applied + 1
            /\ pd_result' = [actions |-> [k \in DOMAIN actions_spec |->
                                            [name |-> actions_spec[k].name, value |-> actions[k]]],
                             internals |-> return_internals]
    /\ pd_status' = "sampled"
    /\ UNCHANGED <<evoVars, subVars, ouVars, netVars, actions_spec, pd_args, pd_self, pd_error>>

\* all_actions_values raises.
AllActionsValuesRaises ==
    /\ pd_status = "constructed"
    /\ ~AllDiscrete(actions_spec)
    /\ \E aux \in Auxiliaries(actions_spec) : auxiliaries' = aux
    /\ pd_error' = "TensorforceError.value"
    /\ pd_status' = "raised"
    /\ UNCHANGED <<evoVars, subVars, ouVars, netVars, actions_spec, pd_args, pd_self,
                   network_applied, pd_result>>

\* all_actions_values returns.
AllActionsValues ==
    /\ pd_status = "constructed"
    /\ AllDiscrete(actions_spec)
    /\ \E aux \in Auxiliaries(actions_spec) :
        /\ auxiliaries' = aux
        /\ pd_result' = [actions |-> [k \in DOMAIN actions_spec |->
                                        [name |-> actions_spec[k].name,
                                         value |-> AllActionValues(Parametrize(actions_spec[k],
                                                        Conditions(aux, actions_spec[k].name)))]],
                         internals |-> FALSE]
    /\ network_applied' = network_applied + 1
    /\ pd_status' = "valued"
    /\ UNCHANGED <<evoVars, subVars, ouVars, netVars, actions_spec, pd_args, pd_self, pd_error>>

NextPD ==
    \/ PDConstruct
    \/ PDConstructRaises
    \/ SampleActions
    \/ AllActionsValues
    \/ AllActionsValuesRaises

SpecPD == InitPDCalls /\ [][NextPD]_vars

\* Some action is of type float.
HasFloat(specs) == \E k \in DOMAIN specs : specs[k].type = "float"

\* C22: all_actions_values raises a value error whenever an action is of type
\* float, and raises it before the network is applied; when every action is
\* bool or int it raises nothing and returns one entry per action name.
C22_ValueErrorIffFloatAction ==
    /\ pd_status = "raised" =>
        /\ HasFloat(actions_spec)
        /\ pd_error = "TensorforceError.value"
        /\ network_applied = 0
        /\ pd_result = << >>
    /\ pd_status = "valued" =>
        /\ ~HasFloat(actions_spec)
        /\ pd_error = ""
        /\ network_applied = 1
        /\ DOMAIN pd_result.actions = DOMAIN actions_spec
        /\ \A k \in DOMAIN actions_spec : pd_result.actions[k].name = actions_spec[k].name

\* all_actions_values has raised for a policy with an int and a float action.
C22_Witness ==
    /\ pd_status = "raised"
    /\ network_applied = 0
    /\ HasFloat(actions_spec)
    /\ \E k \in DOMAIN actions_spec : actions_spec[k].type = "int"

\* C24: with a mask supplied for an int action, the value act returns for that
\* action is one the action's own mask flags True.
C24_MaskedValueNeverReturned ==
    pd_status = "sampled" =>
        \A k \in DOMAIN actions_spec :
            (actions_spec[k].type = "int" /\ actions_spec[k].name \in DOMAIN auxiliaries) =>
                auxiliaries[actions_spec[k].name].mask[pd_result.actions[k].value + 1]

\* Two int actions were sampled under different masks, the second with a value
\* that the mask of the first flags False.
C24_Witness ==
    /\ pd_status = "sampled"
    /\ Len(actions_spec) = 2
    /\ \A k \in DOMAIN actions_spec :
        actions_spec[k].type = "int" /\ actions_spec[k].name \in DOMAIN auxiliaries
    /\ auxiliaries[ActionNames[1]].mask = <<TRUE, FALSE, TRUE>>
    /\ ~auxiliaries[ActionNames[1]].mask[pd_result.actions[2].value + 1]

====
